---- MODULE Spec2Model ----
(***************************************************************************)
(* Model of lmlevelnames/level_reader.c: the Lunar Magic level-name table  *)
(* reader.  The program is modelled as a state machine over main()'s       *)
(* program counter; the helper functions are operators computed the way    *)
(* the C code computes them.                                               *)
(***************************************************************************)
EXTENDS Integers, Sequences, FiniteSets, TLC

(***************************************************************************)
(* Bounds of the model (not program constants).                            *)
(***************************************************************************)
\* how far below 0 and above 95 the slot inputs of the j_to_levelid calls go
SlotMargin == 10

(***************************************************************************)
(* C integer helpers.                                                      *)
(***************************************************************************)
INT_MIN == -2147483647 - 1
INT_MAX == 2147483647
EOF == -1

\* a & b and a | b on non-negative integers, bit by bit
AndBits[a \in Nat, b \in Nat] ==
    IF a = 0 \/ b = 0 THEN 0
    ELSE (a % 2) * (b % 2) + 2 * AndBits[a \div 2, b \div 2]

OrBits[a \in Nat, b \in Nat] ==
    IF a = 0 THEN b
    ELSE IF b = 0 THEN a
    ELSE (IF a % 2 = 1 \/ b % 2 = 1 THEN 1 ELSE 0) + 2 * OrBits[a \div 2, b \div 2]

BitAnd(a, b) == AndBits[a, b]
BitOr(a, b) == OrBits[a, b]

\* a << n and a >> n on non-negative integers
Shl(a, n) == a * (2 ^ n)
Shr(a, n) == a \div (2 ^ n)

\* C's remainder: truncates toward zero, so it has the sign of the dividend
CRem(a, b) == IF a >= 0 THEN a % b ELSE -((-a) % b)

(***************************************************************************)
(* j_to_levelid (level_reader.c:26-34).  A call either returns a value or  *)
(* reaches abort().                                                        *)
(***************************************************************************)
Returns(v) == [abort |-> FALSE, val |-> v]
Aborts == [abort |-> TRUE, val |-> 0]

j_to_levelid_off_by_one(j) ==
    IF j >= \H0 /\ j < \H24 THEN Returns(j)
    ELSE IF j >= \H24 /\ j <= \H5F THEN Returns(\H100 + j - \H24)
    ELSE Aborts

j_to_levelid_base(j) ==
    IF j >= \H0 /\ j <= \H24 THEN Returns(j)
    ELSE IF j > \H24 /\ j <= \H5F THEN Returns(\H100 + j - \H25)
    ELSE Aborts

j_to_levelid_short(j) ==
    IF j >= \H0 /\ j <= \H24 THEN Returns(j)
    ELSE IF j > \H24 /\ j <= \H5C THEN Returns(\H100 + j - \H24)
    ELSE IF j > \H5C /\ j <= \H5F THEN Returns(\H138)
    ELSE Aborts

j_to_levelid_wide(j) ==
    IF j >= \H0 /\ j <= \H24 THEN Returns(j)
    ELSE IF j > \H24 /\ j <= \H6F THEN Returns(\H100 + j - \H24)
    ELSE Aborts

j_to_levelid(j) ==
    IF j >= \H0 /\ j <= \H24 THEN Returns(j)
    ELSE IF j > \H24 /\ j <= \H5F THEN Returns(\H100 + j - \H24)
    ELSE Aborts

(***************************************************************************)
(* The ROM file and the C stream operations on it.  A file is              *)
(*   [exists, seekable, size, patches, fill]:                              *)
(* byte number off (0 <= off < size) is patches[off] where a byte was      *)
(* planted and otherwise fill[off mod Len(fill)].                          *)
(***************************************************************************)
FileByte(f, off) ==
    IF off \in DOMAIN f.patches THEN f.patches[off]
    ELSE f.fill[(off % Len(f.fill)) + 1]

\* fseek(fp, off, SEEK_SET) != 0: the stream is not seekable or off < 0
FseekFails(f, off) == ~f.seekable \/ off < 0

\* fgetc(fp) with the stream positioned at off
Fgetc(f, off) == IF off >= f.size THEN EOF ELSE FileByte(f, off)

\* get_filesize (level_reader.c:206-222)
get_filesize(f) == IF FseekFails(f, 0) THEN EOF ELSE f.size

(***************************************************************************)
(* The registry of open ROMs (level_reader.c:6-24).  A handle is           *)
(* [fp, adj, modes]; fp = NULLFP is the zero-initialised entry.            *)
(***************************************************************************)
BV_SMCHEADER == \H1
BV_LOROM == \H2
NULLFP == 0

\* how many entries of openroms[] are modelled
OpenRomSlots == 2

ZeroHandle == [fp |-> NULLFP, adj |-> 0, modes |-> 0]

\* index of the first registered entry for fp, or -1 for NULL
RECURSIVE get_openrom_from(_, _, _, _)
get_openrom_from(roms, count, fp, i) ==
    IF i >= count THEN -1
    ELSE IF roms[i].fp = fp THEN i
    ELSE get_openrom_from(roms, count, fp, i + 1)

get_openrom(roms, count, fp) == get_openrom_from(roms, count, fp, 0)

(***************************************************************************)
(* lorom_to_offset (level_reader.c:224-236).                               *)
(***************************************************************************)
lorom_to_offset_nomask(addr) ==
    LET bank_n == Shr(addr, 16)
        bank_a == BitAnd(addr, \HFFFF)
    IN  IF addr < \H8000
        THEN (bank_n * \H8000) + BitAnd(bank_a, \H7FFF)
        ELSE BitOr(Shl(bank_n, 15), BitAnd(bank_a, \H7FFF))

lorom_to_offset(addr) ==
    LET bank_n == Shr(addr, 16)
        bank_a == BitAnd(addr, \HFFFF)
    IN  IF addr < \H8000
        THEN (bank_n * \H8000) + BitAnd(bank_a, \H7FFF)
        ELSE BitOr(Shl(BitAnd(bank_n, \H7F), 15), BitAnd(bank_a, \H7FFF))

(***************************************************************************)
(* read1 (level_reader.c:238-265).  The result records the offset handed   *)
(* to fseek (sought = FALSE when read1 returns before seeking), the value  *)
(* returned and what was written to stderr.                                *)
(***************************************************************************)
ReadResult(sought, off, val, err) ==
    [sought |-> sought, off |-> off, val |-> val, err |-> err]

read1_no_adj(f, roms, count, fp, orig_addr, direct) ==
    LET h == get_openrom(roms, count, fp)
        translated == ~direct /\ h # -1
        a1 == IF translated /\ BitAnd(roms[h].modes, BV_LOROM) # 0
              THEN lorom_to_offset(orig_addr) ELSE orig_addr
    IN  IF translated /\ a1 = -1 THEN ReadResult(FALSE, 0, EOF, <<"invalid address">>)
        ELSE IF FseekFails(f, a1) THEN ReadResult(TRUE, a1, EOF, <<"fseek">>)
        ELSE ReadResult(TRUE, a1, Fgetc(f, a1), <<>>)

read1(f, roms, count, fp, orig_addr, direct) ==
    LET h == get_openrom(roms, count, fp)
        translated == ~direct /\ h # -1
        a1 == IF translated /\ BitAnd(roms[h].modes, BV_LOROM) # 0
              THEN lorom_to_offset(orig_addr) ELSE orig_addr
        a2 == IF translated /\ roms[h].adj # 0 THEN a1 + roms[h].adj ELSE a1
    IN  IF translated /\ a1 = -1 THEN ReadResult(FALSE, 0, EOF, <<"invalid address">>)
        ELSE IF FseekFails(f, a2) THEN ReadResult(TRUE, a2, EOF, <<"fseek">>)
        ELSE ReadResult(TRUE, a2, Fgetc(f, a2), <<>>)

(***************************************************************************)
(* read3 (level_reader.c:267-303).                                         *)
(***************************************************************************)
read3_big_endian(f, roms, count, fp, orig_addr, direct) ==
    LET h == get_openrom(roms, count, fp)
        translated == ~direct /\ h # -1
        a1 == IF translated /\ BitAnd(roms[h].modes, BV_LOROM) # 0
              THEN lorom_to_offset(orig_addr) ELSE orig_addr
        a2 == IF translated /\ roms[h].adj # 0 THEN a1 + roms[h].adj ELSE a1
        a == Fgetc(f, a2)
        b == Fgetc(f, a2 + 1)
        c == Fgetc(f, a2 + 2)
    IN  IF FseekFails(f, a2) THEN ReadResult(TRUE, a2, EOF, <<"fseek">>)
        ELSE IF a = EOF \/ b = EOF THEN ReadResult(TRUE, a2, EOF, <<>>)
        ELSE IF c = EOF THEN ReadResult(TRUE, a2, BitOr(Shl(BitAnd(a, \HFF), 8), BitAnd(b, \HFF)), <<>>)
        ELSE ReadResult(TRUE, a2,
                 BitOr(BitOr(Shl(BitAnd(a, \HFF), 16), Shl(BitAnd(b, \HFF), 8)),
                       BitAnd(c, \HFF)), <<>>)

read3(f, roms, count, fp, orig_addr, direct) ==
    LET h == get_openrom(roms, count, fp)
        translated == ~direct /\ h # -1
        a1 == IF translated /\ BitAnd(roms[h].modes, BV_LOROM) # 0
              THEN lorom_to_offset(orig_addr) ELSE orig_addr
        a2 == IF translated /\ roms[h].adj # 0 THEN a1 + roms[h].adj ELSE a1
        a == Fgetc(f, a2)
        b == Fgetc(f, a2 + 1)
        c == Fgetc(f, a2 + 2)
    IN  IF FseekFails(f, a2) THEN ReadResult(TRUE, a2, EOF, <<"fseek">>)
        ELSE IF a = EOF THEN ReadResult(TRUE, a2, EOF, <<>>)
        ELSE IF b = EOF THEN ReadResult(TRUE, a2, EOF, <<>>)
        ELSE IF c = EOF THEN ReadResult(TRUE, a2, EOF, <<>>)
        ELSE ReadResult(TRUE, a2,
                 BitOr(BitOr(Shl(BitAnd(c, \HFF), 16), Shl(BitAnd(b, \HFF), 8)),
                       BitAnd(a, \HFF)), <<>>)

(***************************************************************************)
(* C strings.  A character is its byte value 0..255; a string is the       *)
(* sequence of the bytes before the terminating NUL.  NULLSTR stands for   *)
(* the NULL pointer.                                                       *)
(***************************************************************************)
NULLSTR == <<-1>>

\* strlen of the char array buf (a function on 0..n-1): the index of its
\* first NUL, or n when it holds none
StrLen(buf, n) ==
    LET nuls == { i \in 0 .. (n - 1) : buf[i] = 0 }
    IN  IF nuls = {} THEN n ELSE CHOOSE i \in nuls : \A k \in nuls : i <= k

\* the string held by the char array buf
CString(buf, n) == [k \in 1 .. StrLen(buf, n) |-> buf[k - 1]]

\* tolower in the C locale
ToLower(c) == IF c >= 65 /\ c <= 90 THEN c + 32 ELSE c

\* strcasecmp: 0 when equal ignoring case, else the difference at the first
\* position where the lower-cased bytes differ (the end of a string counts as 0)
RECURSIVE strcasecmp(_, _)
strcasecmp(s, t) ==
    LET c1 == IF s = <<>> THEN 0 ELSE ToLower(Head(s))
        c2 == IF t = <<>> THEN 0 ELSE ToLower(Head(t))
    IN  IF c1 # c2 THEN c1 - c2
        ELSE IF c1 = 0 THEN 0
        ELSE strcasecmp(Tail(s), Tail(t))

\* printf's %X and %x of a non-negative value: the digits without padding
UpperHexDigit(d) == IF d < 10 THEN 48 + d ELSE 65 + (d - 10)
LowerHexDigit(d) == IF d < 10 THEN 48 + d ELSE 97 + (d - 10)

RECURSIVE UpperHex(_)
UpperHex(n) ==
    IF n < 16 THEN <<UpperHexDigit(n)>>
    ELSE UpperHex(n \div 16) \o <<UpperHexDigit(n % 16)>>

RECURSIVE LowerHex(_)
LowerHex(n) ==
    IF n < 16 THEN <<LowerHexDigit(n)>>
    ELSE LowerHex(n \div 16) \o <<LowerHexDigit(n % 16)>>

\* zero padding on the left up to width w (printf's %.3X precision, %04x width)
RECURSIVE ZeroPad(_, _)
ZeroPad(digits, w) ==
    IF Len(digits) >= w THEN digits ELSE ZeroPad(<<48>> \o digits, w)

(***************************************************************************)
(* vanilla_name (level_reader.c:36-133).                                   *)
(***************************************************************************)
vanilla_name(id) ==
    CASE id = \H1 -> <<77, 89, 32, 83, 69, 67, 82, 69, 84, 32, 49>>  \* "MY SECRET 1"
      [] id = \H2 -> <<109, 121, 32, 115, 101, 99, 114, 101, 116, 32, 50>>  \* "my secret 2"
      [] id = \H3 -> <<114, 101, 97, 108, 108, 121, 32, 99, 111, 111, 108, 32, 115, 101, 99, 114, 101, 116>>  \* "really cool secret"
      [] id = \H4 -> <<110, 111, 116, 32, 100, 111, 110, 117, 116, 32, 109, 97, 110, 115, 105, 111, 110>>  \* "not donut mansion"
      [] id = \H5 -> <<112, 108, 97, 105, 110, 115, 32, 100, 101, 32, 100, 111, 110, 117, 116, 32, 51>>  \* "plains de donut 3"
      [] id = \H6 -> <<112, 108, 97, 105, 110, 32, 100, 111, 110, 117, 116, 32, 51>>  \* "plain donut 3"
      [] id = \H7 -> <<77, 111, 114, 116, 111, 110, 32, 112, 108, 97, 99, 101>>  \* "Morton place"
      [] id = \H8 -> <<103, 114, 101, 101, 110, 32, 104, 111, 117, 115, 101>>  \* "green house"
      [] id = \H9 -> <<112, 108, 97, 105, 110, 32, 100, 111, 110, 117, 116, 32, 50>>  \* "plain donut 2"
      [] id = \HA -> <<115, 101, 99, 114, 101, 116, 32, 100, 111, 110, 117, 116, 32, 49>>  \* "secret donut 1"
      [] id = \HB -> <<102, 111, 114, 116, 114, 101, 115, 115, 32, 100, 101, 32, 118, 97, 110, 105, 108, 108>>  \* "fortress de vanill"
      [] id = \HC -> <<98, 114, 105, 100, 103, 101, 32, 100, 101, 32, 98, 101, 117, 114, 32, 49>>  \* "bridge de beur 1"
      [] id = \HD -> <<98, 114, 105, 100, 103, 101, 32, 100, 101, 32, 98, 101, 117, 114, 32, 50>>  \* "bridge de beur 2"
      [] id = \HE -> <<108, 117, 100, 119, 105, 103, 32, 104, 105, 100, 111, 101, 117, 116>>  \* "ludwig hidoeut"
      [] id = \HF -> <<99, 104, 101, 101, 115, 121, 32, 98, 114, 105, 100, 103, 101>>  \* "cheesy bridge"
      [] id = \H10 -> <<109, 111, 117, 110, 116, 97, 105, 110, 32, 111, 102, 32, 99, 111, 111, 107, 105, 101>>  \* "mountain of cookie"
      [] id = \H11 -> <<112, 101, 112, 115, 105, 32, 108, 97, 107, 101>>  \* "pepsi lake"
      [] id = \H12 -> <<121, 101, 108, 108, 111, 119, 32, 115, 116, 97, 114, 32, 114, 111, 100>>  \* "yellow star rod"
      [] id = \H13 -> <<115, 117, 112, 101, 114, 32, 115, 101, 99, 114, 101, 116, 32, 100, 111, 110, 117, 116>>  \* "super secret donut"
      [] id = \H14 -> <<89, 101, 108, 108, 111, 119, 32, 99, 117, 115, 116, 111, 109, 32, 112, 97, 108, 97>>  \* "Yellow custom pala"
      [] id = \H15 -> <<68, 79, 78, 85, 84, 32, 80, 76, 65, 73, 78, 83, 32, 49>>  \* "DONUT PLAINS 1"
      [] id = \H16 -> <<83, 84, 65, 82, 32, 82, 79, 65, 68>>  \* "STAR ROAD"
      [] id = \H17 -> <<35, 50, 32, 77, 79, 82, 84, 79, 78, 39, 83, 32, 80, 76, 65, 73, 78, 83>>  \* "#2 MORTON'S PLAINS"
      [] id = \H18 -> <<83, 85, 78, 75, 69, 78, 32, 71, 72, 79, 83, 84, 32, 83, 72, 73, 80>>  \* "SUNKEN GHOST SHIP"
      [] id = \H19 -> <<35, 50, 32, 77, 79, 82, 84, 79, 78, 39, 83, 32, 80, 76, 65, 73, 78, 83>>  \* "#2 MORTON'S PLAINS"
      [] id = \H1A -> <<35, 54, 32, 87, 69, 78, 68, 89, 39, 83, 32, 67, 65, 83, 84, 76, 69>>  \* "#6 WENDY'S CASTLE"
      [] id = \H1B -> <<67, 72, 79, 67, 79, 76, 65, 84, 69, 32, 70, 79, 82, 84, 82, 69, 83, 83>>  \* "CHOCOLATE FORTRESS"
      [] id = \H1C -> <<67, 72, 79, 67, 79, 76, 65, 84, 69, 32, 73, 83, 76, 65, 78, 68, 32, 53>>  \* "CHOCOLATE ISLAND 5"
      [] id = \H1D -> <<67, 72, 79, 67, 79, 76, 65, 84, 69, 32, 73, 83, 76, 65, 78, 68, 32, 52>>  \* "CHOCOLATE ISLAND 4"
      [] id = \H1E -> <<83, 84, 65, 82, 32, 82, 79, 65, 68>>  \* "STAR ROAD"
      [] id = \H1F -> <<70, 79, 82, 69, 83, 84, 32, 70, 79, 82, 84, 82, 69, 83, 83>>  \* "FOREST FORTRESS"
      [] id = \H20 -> <<35, 53, 32, 82, 79, 89, 39, 83, 32, 67, 65, 83, 84, 76, 69>>  \* "#5 ROY'S CASTLE"
      [] id = \H21 -> <<67, 72, 79, 67, 79, 45, 71, 72, 79, 83, 84, 32, 72, 79, 85, 83, 69>>  \* "CHOCO-GHOST HOUSE"
      [] id = \H22 -> <<67, 72, 79, 67, 79, 76, 65, 84, 69, 32, 73, 83, 76, 65, 78, 68, 32, 49>>  \* "CHOCOLATE ISLAND 1"
      [] id = \H23 -> <<67, 72, 79, 67, 79, 76, 65, 84, 69, 32, 73, 83, 76, 65, 78, 68, 32, 51>>  \* "CHOCOLATE ISLAND 3"
      [] id = \H24 -> <<67, 72, 79, 67, 79, 76, 65, 84, 69, 32, 73, 83, 76, 65, 78, 68, 32, 50>>  \* "CHOCOLATE ISLAND 2"
      [] id = \H101 -> <<35, 49, 32, 73, 71, 71, 89, 39, 83, 32, 67, 65, 83, 84, 76, 69>>  \* "#1 IGGY'S CASTLE"
      [] id = \H102 -> <<89, 79, 83, 72, 73, 39, 83, 32, 73, 83, 76, 65, 78, 68, 32, 52>>  \* "YOSHI'S ISLAND 4"
      [] id = \H103 -> <<89, 79, 83, 72, 73, 39, 83, 32, 73, 83, 76, 65, 78, 68, 32, 51>>  \* "YOSHI'S ISLAND 3"
      [] id = \H104 -> <<89, 79, 83, 72, 73, 39, 83, 32, 72, 79, 85, 83, 69>>  \* "YOSHI'S HOUSE"
      [] id = \H105 -> <<89, 79, 83, 72, 73, 39, 83, 32, 73, 83, 76, 65, 78, 68, 32, 49>>  \* "YOSHI'S ISLAND 1"
      [] id = \H106 -> <<89, 79, 83, 72, 73, 39, 83, 32, 73, 83, 76, 65, 78, 68, 32, 50>>  \* "YOSHI'S ISLAND 2"
      [] id = \H107 -> <<86, 65, 78, 73, 76, 76, 65, 32, 71, 72, 79, 83, 84, 32, 72, 79, 85, 83>>  \* "VANILLA GHOST HOUS"
      [] id = \H108 -> <<83, 84, 65, 82, 32, 82, 79, 65, 68>>  \* "STAR ROAD"
      [] id = \H109 -> <<86, 65, 78, 73, 76, 76, 65, 32, 83, 69, 67, 82, 69, 84, 32, 49>>  \* "VANILLA SECRET 1"
      [] id = \H10A -> <<86, 65, 78, 73, 76, 76, 65, 32, 68, 79, 77, 69, 32, 51>>  \* "VANILLA DOME 3"
      [] id = \H10B -> <<68, 79, 78, 85, 84, 32, 83, 69, 67, 82, 69, 84, 32, 50>>  \* "DONUT SECRET 2"
      [] id = \H10C -> <<83, 84, 65, 82, 32, 82, 79, 65, 68>>  \* "STAR ROAD"
      [] id = \H10D -> <<70, 82, 79, 78, 84, 32, 68, 79, 79, 82>>  \* "FRONT DOOR"
      [] id = \H10E -> <<66, 65, 67, 75, 32, 68, 79, 79, 82>>  \* "BACK DOOR"
      [] id = \H10F -> <<86, 65, 76, 76, 69, 89, 32, 79, 70, 32, 66, 79, 87, 83, 69, 82, 32, 52>>  \* "VALLEY OF BOWSER 4"
      [] id = \H110 -> <<35, 55, 32, 76, 65, 82, 82, 89, 39, 83, 32, 67, 65, 83, 84, 76, 69>>  \* "#7 LARRY'S CASTLE"
      [] id = \H111 -> <<86, 65, 76, 76, 69, 89, 32, 70, 79, 82, 84, 82, 69, 83, 83>>  \* "VALLEY FORTRESS"
      [] id = \H112 -> <<>>  \* ""
      [] id = \H113 -> <<86, 65, 76, 76, 69, 89, 32, 79, 70, 32, 66, 79, 87, 83, 69, 82, 32, 51>>  \* "VALLEY OF BOWSER 3"
      [] id = \H114 -> <<86, 65, 76, 76, 69, 89, 32, 71, 72, 79, 83, 84, 32, 72, 79, 85, 83, 69>>  \* "VALLEY GHOST HOUSE"
      [] id = \H115 -> <<86, 65, 76, 76, 69, 89, 32, 79, 70, 32, 66, 79, 87, 83, 69, 82, 32, 50>>  \* "VALLEY OF BOWSER 2"
      [] id = \H116 -> <<86, 65, 76, 76, 69, 89, 32, 79, 70, 32, 66, 79, 87, 83, 69, 82, 32, 49>>  \* "VALLEY OF BOWSER 1"
      [] id = \H117 -> <<67, 72, 79, 67, 79, 76, 65, 84, 69, 32, 83, 69, 67, 82, 69, 84>>  \* "CHOCOLATE SECRET"
      [] id = \H118 -> <<86, 65, 78, 73, 76, 76, 65, 32, 68, 79, 77, 69, 32, 50>>  \* "VANILLA DOME 2"
      [] id = \H119 -> <<86, 65, 78, 73, 76, 76, 65, 32, 68, 79, 77, 69, 32, 52>>  \* "VANILLA DOME 4"
      [] id = \H11A -> <<86, 65, 78, 73, 76, 76, 65, 32, 68, 79, 77, 69, 32, 49>>  \* "VANILLA DOME 1"
      [] id = \H11B -> <<82, 69, 68, 32, 83, 87, 73, 84, 67, 72, 32, 80, 65, 76, 65, 67, 69>>  \* "RED SWITCH PALACE"
      [] id = \H11C -> <<35, 51, 32, 76, 69, 77, 77, 89, 39, 83, 32, 67, 65, 83, 84, 76, 69>>  \* "#3 LEMMY'S CASTLE"
      [] id = \H11D -> <<70, 79, 82, 69, 83, 84, 32, 71, 72, 79, 83, 84, 32, 72, 79, 85, 83, 69>>  \* "FOREST GHOST HOUSE"
      [] id = \H11E -> <<70, 79, 82, 69, 83, 84, 32, 79, 70, 73, 76, 76, 85, 83, 73, 79, 78>>  \* "FOREST OFILLUSION"
      [] id = \H11F -> <<70, 79, 82, 69, 83, 84, 32, 79, 70, 73, 76, 76, 85, 83, 73, 79, 78>>  \* "FOREST OFILLUSION"
      [] id = \H120 -> <<70, 79, 82, 69, 83, 84, 32, 79, 70, 73, 76, 76, 85, 83, 73, 79, 78>>  \* "FOREST OFILLUSION"
      [] id = \H121 -> <<66, 76, 85, 69, 32, 83, 87, 73, 84, 67, 72, 32, 80, 65, 76, 65, 67, 69>>  \* "BLUE SWITCH PALACE"
      [] id = \H122 -> <<70, 79, 82, 69, 83, 84, 32, 83, 69, 67, 82, 69, 84, 32, 65, 82, 69, 65>>  \* "FOREST SECRET AREA"
      [] id = \H123 -> <<70, 79, 82, 69, 83, 84, 32, 79, 70, 73, 76, 76, 85, 83, 73, 79, 78>>  \* "FOREST OFILLUSION"
      [] id = \H124 -> <<83, 84, 65, 82, 32, 82, 79, 65, 68>>  \* "STAR ROAD"
      [] id = \H125 -> <<70, 85, 78, 75, 89>>  \* "FUNKY"
      [] id = \H126 -> <<79, 85, 84, 82, 65, 71, 69, 79, 85, 83>>  \* "OUTRAGEOUS"
      [] id = \H127 -> <<77, 79, 78, 68, 79>>  \* "MONDO"
      [] id = \H128 -> <<71, 82, 79, 79, 86, 89>>  \* "GROOVY"
      [] id = \H129 -> <<83, 84, 65, 82, 32, 82, 79, 65, 68>>  \* "STAR ROAD"
      [] id = \H12A -> <<71, 78, 65, 82, 76, 89>>  \* "GNARLY"
      [] id = \H12B -> <<84, 85, 66, 85, 76, 65, 82>>  \* "TUBULAR"
      [] id = \H12C -> <<87, 65, 89, 32, 67, 79, 79, 76>>  \* "WAY COOL"
      [] id = \H12D -> <<65, 87, 69, 83, 79, 77, 69>>  \* "AWESOME"
      [] id = \H12E -> <<83, 84, 65, 82, 32, 82, 79, 65, 68>>  \* "STAR ROAD"
      [] id = \H12F -> <<83, 84, 65, 82, 32, 82, 79, 65, 68>>  \* "STAR ROAD"
      [] id = \H130 -> <<83, 84, 65, 82, 32, 87, 79, 82, 76, 68, 32, 50>>  \* "STAR WORLD 2"
      [] id = \H131 -> <<83, 84, 65, 82, 32, 82, 79, 65, 68>>  \* "STAR ROAD"
      [] id = \H132 -> <<83, 84, 65, 82, 32, 87, 79, 82, 76, 68, 32, 51>>  \* "STAR WORLD 3"
      [] id = \H133 -> <<83, 84, 65, 82, 32, 82, 79, 65, 68>>  \* "STAR ROAD"
      [] id = \H134 -> <<83, 84, 65, 82, 32, 87, 79, 82, 76, 68, 32, 49>>  \* "STAR WORLD 1"
      [] id = \H135 -> <<83, 84, 65, 82, 32, 87, 79, 82, 76, 68, 32, 52>>  \* "STAR WORLD 4"
      [] id = \H136 -> <<83, 84, 65, 82, 32, 87, 79, 82, 76, 68, 32, 53>>  \* "STAR WORLD 5"
      [] id = \H137 -> <<83, 84, 65, 82, 32, 82, 79, 65, 68>>  \* "STAR ROAD"
      [] id = \H138 -> <<83, 84, 65, 82, 32, 82, 79, 65, 68>>  \* "STAR ROAD"
      [] OTHER -> NULLSTR

(***************************************************************************)
(* smw_character_lookup (level_reader.c:307-332).  tile_to_ascii_byte      *)
(* comes from default_tile_map.h; the table is a parameter of the model:   *)
(* tmap is a non-empty sequence of characters and tile code c yields       *)
(* tmap[c mod Len(tmap)].                                                  *)
(***************************************************************************)
tile_to_ascii_byte(tmap, charcode) == tmap[(charcode % Len(tmap)) + 1]

\* the characters of the cases 0x00 .. 0x1F: A-Z ! . - , ? and space
SmwLowCases ==
    <<65, 66, 67, 68, 69, 70, 71, 72, 73, 74, 75, 76, 77, 78, 79, 80,
      81, 82, 83, 84, 85, 86, 87, 88, 89, 90, 33, 46, 45, 44, 63, 32>>

smw_character_lookup(tmap, charcode) ==
    IF charcode >= \H00 /\ charcode <= \H1F THEN SmwLowCases[charcode + 1]
    ELSE IF charcode = \H5A THEN 35                      \* '#'
    ELSE IF charcode = \H5B THEN 40                      \* '('
    ELSE IF charcode = \H5C THEN 41                      \* ')'
    ELSE IF charcode >= \H64 /\ charcode <= \H6C THEN 49 + (charcode - \H64)  \* '1'..'9'
    ELSE IF charcode = \H9F THEN 32                      \* ' '
    ELSE IF charcode = \HFC THEN 32                      \* ' '
    ELSE tile_to_ascii_byte(tmap, charcode) % 256

(***************************************************************************)
(* The trailing-space trimming loop of main (level_reader.c:428-430), on   *)
(* the string held by xb.                                                  *)
(***************************************************************************)
TrimLoop[s \in Seq(0 .. 255)] ==
    IF Len(s) > 0 /\ Len(s) < 19 /\ s[Len(s)] = 32
    THEN TrimLoop[SubSeq(s, 1, Len(s) - 1)]
    ELSE s

TrimTrailing_once(s) ==
    IF Len(s) > 0 /\ Len(s) < 19 /\ s[Len(s)] = 32
    THEN SubSeq(s, 1, Len(s) - 1)
    ELSE s

TrimTrailing(s) == TrimLoop[s]

(***************************************************************************)
(* escape_json_string_static (level_reader.c:137-204) for non-NULL input   *)
(* and output.  The result is [ret, buf]: the value returned and the       *)
(* output array afterwards.  Writes at an index outside the array are      *)
(* recorded in the field oob.                                              *)
(***************************************************************************)
EscResult(ret, buf, hi) == [ret |-> ret, buf |-> buf, hi |-> hi]

Max(a, b) == IF a >= b THEN a ELSE b

\* the array buf after writing the characters cs at the indices 0, 1, ...;
\* a write outside the array leaves the array as it is
WriteAtStart(buf, cs) ==
    [k \in DOMAIN buf |-> IF k < Len(cs) THEN cs[k + 1] ELSE buf[k]]

\* the second character of the two-character escape of c, or 0 when c has none
NamedEscape(c) ==
    CASE c = 34 -> 34      \* '"'  gives \"
      [] c = 92 -> 92      \* '\'  gives \\
      [] c = 8  -> 98      \* '\b' gives \b
      [] c = 12 -> 102     \* '\f' gives \f
      [] c = 10 -> 110     \* '\n' gives \n
      [] c = 13 -> 114     \* '\r' gives \r
      [] c = 9  -> 116     \* '\t' gives \t
      [] OTHER -> 0

\* one iteration of the loop on character c.  st is [ret, text, nul, hi]:
\* ret = -1 once the function has returned -1; text are the characters
\* written so far at output[0 .. output_idx-1], so output_idx = Len(text);
\* nul tells that sprintf has left a NUL at output[output_idx]; hi is the
\* highest index written so far
EscapeChar_copy_control(st, c, size) ==
    LET output_idx == Len(st.text)
        fail == [st EXCEPT !.ret = -1]
    IN  IF output_idx + 1 >= size THEN fail
        ELSE IF NamedEscape(c) # 0
        THEN IF output_idx + 2 >= size THEN fail
             ELSE [st EXCEPT !.text = st.text \o <<92, NamedEscape(c)>>,
                             !.nul = FALSE,
                             !.hi = Max(st.hi, output_idx + 1)]
        ELSE [st EXCEPT !.text = st.text \o <<c>>,
                        !.nul = FALSE,
                        !.hi = Max(st.hi, output_idx)]

EscapeChar_late_check(st, c, size) ==
    LET output_idx == Len(st.text)
        fail == [st EXCEPT !.ret = -1]
    IN  IF output_idx + 1 >= size THEN fail
        ELSE IF NamedEscape(c) # 0
        THEN IF output_idx + 2 >= size THEN fail
             ELSE [st EXCEPT !.text = st.text \o <<92, NamedEscape(c)>>,
                             !.nul = FALSE,
                             !.hi = Max(st.hi, output_idx + 1)]
        ELSE IF c >= \H00 /\ c <= \H1F
        THEN IF output_idx + 6 > size THEN fail
             ELSE [st EXCEPT !.text = st.text \o <<92, 117>> \o ZeroPad(LowerHex(c), 4),
                             !.nul = TRUE,
                             !.hi = Max(st.hi, output_idx + 6)]
        ELSE [st EXCEPT !.text = st.text \o <<c>>,
                        !.nul = FALSE,
                        !.hi = Max(st.hi, output_idx)]

EscapeChar(st, c, size) ==
    LET output_idx == Len(st.text)
        fail == [st EXCEPT !.ret = -1]
    IN  IF output_idx + 1 >= size THEN fail
        ELSE IF NamedEscape(c) # 0
        THEN IF output_idx + 2 >= size THEN fail
             ELSE [st EXCEPT !.text = st.text \o <<92, NamedEscape(c)>>,
                             !.nul = FALSE,
                             !.hi = Max(st.hi, output_idx + 1)]
        ELSE IF c >= \H00 /\ c <= \H1F
        THEN IF output_idx + 6 >= size THEN fail
             ELSE [st EXCEPT !.text = st.text \o <<92, 117>> \o ZeroPad(LowerHex(c), 4),
                             !.nul = TRUE,
                             !.hi = Max(st.hi, output_idx + 6)]
        ELSE [st EXCEPT !.text = st.text \o <<c>>,
                        !.nul = FALSE,
                        !.hi = Max(st.hi, output_idx)]

\* the loop from input[i] on
RECURSIVE EscapeFrom(_, _, _, _)
EscapeFrom(input, i, st, size) ==
    IF st.ret = -1 \/ i > Len(input) THEN st
    ELSE CHOOSE r \in { EscapeFrom(input, i + 1, next, size) :
                            next \in { EscapeChar(st, input[i], size) } } : TRUE

\* the end of the function (level_reader.c:150-203): the return of -1 from
\* inside the loop, or the terminating NUL and the return of output_idx
EscapeEnd(st, output) ==
    IF st.ret = -1
    THEN EscResult(-1,
             WriteAtStart(output, st.text \o (IF st.nul THEN <<0>> ELSE <<>>)),
             st.hi)
    ELSE EscResult(Len(st.text), WriteAtStart(output, st.text \o <<0>>),
                   Max(st.hi, Len(st.text)))

escape_json_string_static(input, output, output_buffer_size) ==
    IF output_buffer_size = 0 THEN EscResult(-1, output, -1)
    ELSE CHOOSE r \in
             { EscapeEnd(st, output) :
                 st \in { EscapeFrom(input, 1,
                              [ret |-> 0, text |-> <<>>, nul |-> FALSE, hi |-> -1],
                              output_buffer_size) } } : TRUE

(***************************************************************************)
(* The texts main prints on stdout (level_reader.c:350, 418, 447, 452).    *)
(***************************************************************************)
\* "Usage: %s <filename>\n" with argv[0] = "level_reader"
UsageLine == <<85, 115, 97, 103, 101, 58, 32, 108, 101, 118, 101, 108, 95, 114, 101, 97, 100, 101, 114, 32, 60, 102, 105, 108, 101, 110, 97, 109, 101, 62, 10>>

\* " \"levelnames\" : {\n"
HeaderLine == <<32, 34, 108, 101, 118, 101, 108, 110, 97, 109, 101, 115, 34, 32, 58, 32, 123, 10>>

\* "}\n"
ClosingLine == <<125, 10>>

EntryLine_always_comma(id, name, need_comma) ==
    <<32, 32, 32, 32, 32, 32, 34>> \o ZeroPad(UpperHex(id), 3)
      \o <<34, 58, 32, 34>> \o name \o <<34>>
      \o <<44>> \o <<10>>

\* "      \"%.3X\": \"%s\"%s\n"
EntryLine(id, name, need_comma) ==
    <<32, 32, 32, 32, 32, 32, 34>> \o ZeroPad(UpperHex(id), 3)
      \o <<34, 58, 32, 34>> \o name \o <<34>>
      \o (IF need_comma # 0 THEN <<44>> ELSE <<>>) \o <<10>>

(***************************************************************************)
(* State.                                                                  *)
(***************************************************************************)
VARIABLES
    pc,              \* position of main(): "idle" while main is not running
    argc,            \* main's argc
    rom,             \* the file named by argv[1]
    fp,              \* main's FILE *fp
    openroms,        \* the registry array
    openroms_count,  \* number of registered entries
    file_size,       \* main's file_size
    levelnames_addr, \* main's levelnames_addr
    j,               \* main's slot iterator
    x0,              \* main's escaped-name buffer
    out,             \* what was written to stdout, one element per printf
    err,             \* what was written to stderr, one element per message
    status,          \* exit status of the process, -1 while it runs
    reads,           \* the read1/read3 calls of the last step of main
    ids,             \* the values j_to_levelid returned for the printed keys
    tile_map,        \* the character the fallback tile table yields
    fn               \* a single function call under study

mainVars == <<pc, argc, file_size, levelnames_addr, j, x0, out, err, status,
              reads, ids, tile_map>>
fileVars == <<rom, fp, openroms, openroms_count>>
vars == <<pc, argc, rom, fp, openroms, openroms_count, file_size,
          levelnames_addr, j, x0, out, err, status, reads, ids, tile_map, fn>>

\* sizeof(x0) (level_reader.c:346)
X0Size == 100

\* the values of main's variables before main runs (level_reader.c:342-347)
MainLocalsInit ==
    /\ file_size = 0
    /\ levelnames_addr = \H0
    /\ j = 0
    /\ x0 = [i \in 0 .. (X0Size - 1) |-> 0]
    /\ out = <<>>
    /\ err = <<>>
    /\ status = -1
    /\ reads = <<>>
    /\ ids = <<>>

MainIdle ==
    /\ pc = "idle"
    /\ argc = 0
    /\ tile_map = << 1 >>
    /\ MainLocalsInit

(***************************************************************************)
(* main (level_reader.c:340-455).                                          *)
(***************************************************************************)
\* the byte planted at 0x7FD5, at 0x049549 and the pointer at 0x03BB57, for
\* a ROM laid out LoROM or linearly, behind a copier header of adj bytes
PlantedBytes(lorom, adj, mapByte, sigByte, ptr) ==
    LET sigOff == (IF lorom THEN \H21549 ELSE \H49549) + adj
        ptrOff == (IF lorom THEN \H1BB57 ELSE \H3BB57) + adj
    IN  ((\H7FD5 + adj) :> mapByte) @@ (sigOff :> sigByte)
        @@ (ptrOff :> ptr[1]) @@ ((ptrOff + 1) :> ptr[2]) @@ ((ptrOff + 2) :> ptr[3])

MainSizes == { \H0, \H8000, \H80000, \H80200, \H80100 }

\* the pointer planted at 0x03BB57, the bytes of the rest of the file and
\* the fallback tile table: a table that runs off the end of the file, in
\* a file of letters and spaces, of spaces only and of bytes 0x22 only,
\* and a table that lies past the end of the file
MainTables ==
    { [ptr |-> << \H00, \HFC, \H07 >>, fill |-> << \H12, \H1F, \H00, \H1F, \H1F >>,
       tmap |-> << 63, 0, 34 >>],
      [ptr |-> << \H00, \HFC, \H07 >>, fill |-> << \H1F >>, tmap |-> << 63, 0, 34 >>],
      [ptr |-> << \H00, \HFC, \H07 >>, fill |-> << \H22 >>, tmap |-> << 1 >>],
      [ptr |-> << \HFF, \HFF, \HFF >>, fill |-> << \H1F >>, tmap |-> << 1 >>] }

RomImage(n, l, m, g, t) ==
    [exists |-> TRUE, seekable |-> TRUE, size |-> n,
     patches |-> PlantedBytes(l, IF n % 1024 = 512 THEN \H200 ELSE 0, m, g, t.ptr),
     fill |-> t.fill]

\* a file that cannot be opened, and an open stream that cannot seek
OtherFiles ==
    { [exists |-> e, seekable |-> FALSE, size |-> \H80000, patches |-> <<>>,
       fill |-> << \H22 >>] : e \in BOOLEAN }

NoCall == [name |-> "none", arg |-> 0, direct |-> FALSE,
           ret |-> Aborts, done |-> TRUE]

InitMain ==
    /\ pc = "start"
    /\ \/ /\ argc = 1
          /\ rom \in OtherFiles
          /\ tile_map = << 1 >>
       \/ /\ argc = 2
          /\ rom \in OtherFiles
          /\ tile_map = << 1 >>
       \/ /\ argc = 2
          /\ \E n \in MainSizes, l \in BOOLEAN, m \in { \H20, \H30, \H00 },
                g \in { \H22, \H21 }, t \in MainTables :
                /\ rom = RomImage(n, l, m, g, t)
                /\ tile_map = t.tmap
    /\ fp = NULLFP
    /\ openroms = [i \in 0 .. (OpenRomSlots - 1) |-> ZeroHandle]
    /\ openroms_count = 0
    /\ MainLocalsInit
    /\ fn = NoCall

\* level_reader.c:349-352
MainArgs ==
    /\ pc = "start"
    /\ IF argc < 2
       THEN /\ out' = Append(out, UsageLine)
            /\ status' = 1
            /\ pc' = "exited"
       ELSE /\ pc' = "open"
            /\ UNCHANGED <<out, status>>
    /\ UNCHANGED <<argc, fileVars, file_size, levelnames_addr, j, x0, err,
                   reads, ids, tile_map, fn>>

\* level_reader.c:354-358
MainOpen ==
    /\ pc = "open"
    /\ IF ~rom.exists
       THEN /\ err' = Append(err, "fopen")
            /\ status' = 1
            /\ pc' = "exited"
            /\ UNCHANGED fp
       ELSE /\ fp' = 1
            /\ pc' = "classify"
            /\ UNCHANGED <<err, status>>
    /\ UNCHANGED <<argc, rom, openroms, openroms_count, file_size,
                   levelnames_addr, j, x0, out, reads, ids, tile_map, fn>>

\* the size test of level_reader.c:361-373 on the registry entry h
classify_default_headered(h, size) ==
    IF CRem(size, 1024) = 0
    THEN [h EXCEPT !.adj = \H0, !.modes = 0]
    ELSE [h EXCEPT !.adj = \H200, !.modes = BitOr(h.modes, BV_SMCHEADER)]

classify(h, size) ==
    IF CRem(size, 1024) = 0
    THEN [h EXCEPT !.adj = \H0, !.modes = 0]
    ELSE IF CRem(size, 1024) = 512
    THEN [h EXCEPT !.adj = \H200, !.modes = BitOr(h.modes, BV_SMCHEADER)]
    ELSE h

\* level_reader.c:359-374
MainClassify ==
    /\ pc = "classify"
    /\ LET size == get_filesize(rom)
           sizeErr == IF FseekFails(rom, 0) THEN <<"fseek">> ELSE <<>>
           romErr == IF CRem(size, 1024) # 0 /\ CRem(size, 1024) # 512
                     THEN <<"invalid ROM size">> ELSE <<>>
       IN  /\ file_size' = size
           /\ openroms' = [openroms EXCEPT ![openroms_count] =
                              [classify(openroms[openroms_count], size) EXCEPT !.fp = fp]]
           /\ openroms_count' = openroms_count + 1
           /\ err' = err \o sizeErr \o romErr
    /\ pc' = "detect"
    /\ UNCHANGED <<argc, rom, fp, levelnames_addr, j, x0, out, status, reads,
                   ids, tile_map, fn>>

ReadLog(addr, r) == [addr |-> addr, r |-> r]

\* level_reader.c:376-382
MainDetect ==
    /\ pc = "detect"
    /\ LET r1 == read1(rom, openroms, openroms_count, fp, \H7FD5, FALSE)
           r2 == read1(rom, openroms, openroms_count, fp, \H7FD5, FALSE)
           h == openroms[openroms_count - 1]
           lorom == [h EXCEPT !.modes = BitOr(h.modes, BV_LOROM)]
       IN  IF r1.val = \H20
           THEN /\ openroms' = [openroms EXCEPT ![openroms_count - 1] = lorom]
                /\ reads' = << ReadLog(\H7FD5, r1) >>
                /\ err' = err \o r1.err
           ELSE /\ openroms' = IF r2.val = \H30
                               THEN [openroms EXCEPT ![openroms_count - 1] = lorom]
                               ELSE openroms
                /\ reads' = << ReadLog(\H7FD5, r1), ReadLog(\H7FD5, r2) >>
                /\ err' = err \o r1.err \o r2.err
    /\ pc' = "locate"
    /\ UNCHANGED <<argc, rom, fp, openroms_count, file_size, levelnames_addr,
                   j, x0, out, status, ids, tile_map, fn>>

MainLocate_fallback ==
    /\ pc = "locate"
    /\ LET sig == read1(rom, openroms, openroms_count, fp, \H049549, FALSE)
           ptr == read3(rom, openroms, openroms_count, fp, \H03BB57, FALSE)
       IN  IF sig.val = \H22
           THEN /\ levelnames_addr' = ptr.val
                /\ reads' = << ReadLog(\H049549, sig), ReadLog(\H03BB57, ptr) >>
                /\ err' = err \o sig.err \o ptr.err
           ELSE /\ levelnames_addr' = \H049AC5
                /\ reads' = << ReadLog(\H049549, sig) >>
                /\ err' = err \o sig.err \o << "-> 49AC5" >>
    /\ pc' = "header"
    /\ UNCHANGED <<argc, fileVars, file_size, j, x0, out, status, ids, tile_map, fn>>

\* level_reader.c:385-412
MainLocate ==
    /\ pc = "locate"
    /\ LET sig == read1(rom, openroms, openroms_count, fp, \H049549, FALSE)
           ptr == read3(rom, openroms, openroms_count, fp, \H03BB57, FALSE)
       IN  IF sig.val = \H22
           THEN /\ levelnames_addr' = ptr.val
                /\ reads' = << ReadLog(\H049549, sig), ReadLog(\H03BB57, ptr) >>
                /\ err' = err \o sig.err \o ptr.err
                /\ pc' = "header"
                /\ UNCHANGED status
           ELSE /\ levelnames_addr' = \H049AC5
                /\ reads' = << ReadLog(\H049549, sig) >>
                /\ err' = err \o sig.err \o << "-> 49AC5" >>
                /\ status' = 1
                /\ pc' = "exited"
    /\ UNCHANGED <<argc, fileVars, file_size, j, x0, out, ids, tile_map, fn>>

\* level_reader.c:418-419: the header line and the start of the loop
MainHeader ==
    /\ pc = "header"
    /\ out' = Append(out, HeaderLine)
    /\ j' = 1
    /\ pc' = "loop"
    /\ UNCHANGED <<argc, fileVars, file_size, levelnames_addr, x0, err, status,
                   reads, ids, tile_map, fn>>

\* the reads of slot n from character i on (level_reader.c:421-422), in order
RECURSIVE SlotReadsFrom(_, _)
SlotReadsFrom(n, i) ==
    IF i >= 18 THEN <<>>
    ELSE << ReadLog(levelnames_addr + 19 * n + i,
                    read1(rom, openroms, openroms_count, fp,
                          levelnames_addr + 19 * n + i, FALSE)) >>
         \o SlotReadsFrom(n, i + 1)

SlotReads(n) == SlotReadsFrom(n, 0)

RECURSIVE ReadErrs(_, _)
ReadErrs(rs, i) == IF i > Len(rs) THEN <<>> ELSE rs[i].r.err \o ReadErrs(rs, i + 1)

\* the name of a slot after trimming and the vanilla comparison
\* (level_reader.c:428-435), from the decoded characters xb and the LevelID
SlotName_case_sensitive(xb, id) ==
    LET trimmed == TrimTrailing(CString(xb, 18))
    IN  IF vanilla_name(id) # NULLSTR /\ trimmed = vanilla_name(id)
        THEN << 45 >>
        ELSE trimmed

SlotName(xb, id) ==
    LET trimmed == TrimTrailing(CString(xb, 18))
    IN  IF vanilla_name(id) # NULLSTR /\ strcasecmp(trimmed, vanilla_name(id)) = 0
        THEN << 45 >>
        ELSE trimmed

\* level_reader.c:419-451: one iteration of the loop over the slots
MainSlot ==
    /\ pc = "loop"
    /\ j < 96
    /\ \E rs \in { SlotReads(j) } :
          /\ reads' = rs
          /\ err' = err \o ReadErrs(rs, 1)
          /\ LET xb == [i \in 0 .. 17 |-> smw_character_lookup(tile_map, rs[i + 1].r.val)]
                 id == j_to_levelid(j)
                 need_comma == IF j = 95 THEN 0 ELSE 1
             IN  IF id.abort
                 THEN /\ status' = 134
                      /\ pc' = "aborted"
                      /\ UNCHANGED <<j, x0, out, ids>>
                 ELSE /\ \E name \in { SlotName(xb, id.val) } :
                          \E buf \in { escape_json_string_static(name, x0, X0Size).buf } :
                            /\ x0' = buf
                            /\ out' = Append(out, EntryLine(id.val, CString(buf, X0Size),
                                                            need_comma))
                      /\ ids' = Append(ids, id.val)
                      /\ j' = j + 1
                      /\ pc' = IF j + 1 < 96 THEN "loop" ELSE "close"
                      /\ UNCHANGED status
    /\ UNCHANGED <<argc, fileVars, file_size, levelnames_addr, tile_map, fn>>

\* level_reader.c:452-455
MainClose ==
    /\ pc = "close"
    /\ out' = Append(out, ClosingLine)
    /\ status' = 0
    /\ pc' = "done"
    /\ UNCHANGED <<argc, fileVars, file_size, levelnames_addr, j, x0, err,
                   reads, ids, tile_map, fn>>

NextMain ==
    \/ MainArgs
    \/ MainOpen
    \/ MainClassify
    \/ MainDetect
    \/ MainLocate
    \/ MainHeader
    \/ MainSlot
    \/ MainClose

SpecMain == InitMain /\ [][NextMain]_vars

\* main is a sequential program: it keeps running until it returns or exits
FairSpecMain == SpecMain /\ WF_vars(NextMain)

(***************************************************************************)
(* Calls of the helper functions on arbitrary arguments.                   *)
(***************************************************************************)
\* how far around each interesting address the read1/read3 arguments go
AddrSpread == 1

SlotInputs == ((0 - SlotMargin) .. (95 + SlotMargin)) \cup {INT_MIN, INT_MAX}

AddrBases ==
    { \H0, \H7FD5, \H7FFF, \H8000, \HFFFF, \H10000, \H18000, \H3BB57, \H49549,
      \H7F8000, \H7FFFFF, \H800000, \H808000, \HFF0000, \HFFFFFF }

AddrInputs ==
    { b + d : b \in AddrBases, d \in (0 - AddrSpread) .. AddrSpread } \cap (0 .. \HFFFFFF)

\* the file of the helper calls: five distinct bytes repeated, of three sizes
CallFiles ==
    { [exists |-> TRUE, seekable |-> s, size |-> n, patches |-> <<>>,
       fill |-> << \H12, \H34, \H56, \H78, \H9A >>] :
         s \in BOOLEAN, n \in { \H8000, \H18201, \H400000 } }

\* the registries of the helper calls: fp unregistered, or registered in
\* each of the states main can leave a handle in
CallRegistries ==
    { [i \in 0 .. (OpenRomSlots - 1) |-> ZeroHandle] }
    \cup { [i \in 0 .. (OpenRomSlots - 1) |->
              IF i = 0 THEN [fp |-> 1, adj |-> a, modes |-> m] ELSE ZeroHandle] :
           a \in { \H0, \H200 }, m \in 0 .. 3 }

InitLevelId ==
    /\ MainIdle
    /\ rom \in CallFiles /\ rom.seekable /\ rom.size = \H8000
    /\ fp = NULLFP
    /\ openroms = [i \in 0 .. (OpenRomSlots - 1) |-> ZeroHandle]
    /\ openroms_count = 0
    /\ \E n \in SlotInputs :
          fn = [name |-> "j_to_levelid", arg |-> n, direct |-> FALSE,
                ret |-> Aborts, done |-> FALSE]

InitRead ==
    /\ MainIdle
    /\ rom \in CallFiles
    /\ fp = 1
    /\ openroms \in CallRegistries
    /\ openroms_count = (IF openroms[0].fp = NULLFP THEN 0 ELSE 1)
    /\ \E name \in {"read1", "read3"}, a \in AddrInputs, d \in BOOLEAN :
          fn = [name |-> name, arg |-> a, direct |-> d,
                ret |-> ReadResult(FALSE, 0, 0, <<>>), done |-> FALSE]

InitCalls == InitLevelId \/ InitRead

Call_j_to_levelid ==
    /\ fn.name = "j_to_levelid"
    /\ ~fn.done
    /\ fn' = [fn EXCEPT !.ret = j_to_levelid(fn.arg), !.done = TRUE]
    /\ UNCHANGED <<mainVars, fileVars>>

Call_read1 ==
    /\ fn.name = "read1"
    /\ ~fn.done
    /\ fn' = [fn EXCEPT !.ret = read1(rom, openroms, openroms_count, fp, fn.arg, fn.direct),
                        !.done = TRUE]
    /\ UNCHANGED <<mainVars, fileVars>>

Call_read3 ==
    /\ fn.name = "read3"
    /\ ~fn.done
    /\ fn' = [fn EXCEPT !.ret = read3(rom, openroms, openroms_count, fp, fn.arg, fn.direct),
                        !.done = TRUE]
    /\ UNCHANGED <<mainVars, fileVars>>

NextCalls == Call_j_to_levelid \/ Call_read1 \/ Call_read3

SpecCalls == InitCalls /\ [][NextCalls]_vars

(***************************************************************************)
(* The whole model: a run of main, or one call of a helper function.       *)
(***************************************************************************)
Init == InitMain \/ InitCalls
Next == NextMain \/ NextCalls
Spec == Init /\ [][Next]_vars

(***************************************************************************)
(* The text steps of one iteration of main's loop, each on its own: the    *)
(* decoding and trimming of the 18 tile codes (level_reader.c:420-430).    *)
(***************************************************************************)
\* xb after the decoding loop (level_reader.c:421-426), from the 18 values
\* read1 returned
DecodeSlot(tmap, codes) ==
    [i \in 0 .. 17 |-> smw_character_lookup(tmap, codes[i + 1])]

\* the fallback tile tables of the text steps: a printable character, a
\* space, and a table that yields NUL for some tile codes
TextTileMaps == { << 63 >>, << 32 >>, << 63, 0, 34 >> }

\* tile codes a name is made of, and tile codes it is padded with
TrimBodies ==
    { << \H12 >>, << \H00, \H1F >>, << \H1F, \H0C >>, << \H40 >>,
      << \H9F, \H1B, \HFC >> }

TrimTails == { << \H1F >>, << \H9F >>, << \HFC >>, << \H1F, \H9F, \HFC >> }

\* 18 tile codes: k codes of a body, then a tail
TrimCodes ==
    { [i \in 1 .. 18 |-> IF i <= k THEN b[((i - 1) % Len(b)) + 1]
                                    ELSE t[((i - 1) % Len(t)) + 1]] :
        k \in 0 .. 18, b \in TrimBodies, t \in TrimTails }

TextIdle ==
    /\ pc = "idle"
    /\ argc = 0
    /\ MainLocalsInit
    /\ rom \in CallFiles /\ rom.seekable /\ rom.size = \H8000
    /\ fp = NULLFP
    /\ openroms = [i \in 0 .. (OpenRomSlots - 1) |-> ZeroHandle]
    /\ openroms_count = 0

InitTrim ==
    /\ TextIdle
    /\ tile_map \in TextTileMaps
    /\ \E codes \in TrimCodes :
          fn = [name |-> "decode_trim", arg |-> codes, direct |-> FALSE,
                ret |-> <<>>, done |-> FALSE]

\* level_reader.c:421-430
Call_decode_trim ==
    /\ fn.name = "decode_trim"
    /\ ~fn.done
    /\ fn' = [fn EXCEPT !.ret = TrimTrailing(CString(DecodeSlot(tile_map, fn.arg), 18)),
                        !.done = TRUE]
    /\ UNCHANGED <<mainVars, fileVars>>

(***************************************************************************)
(* The comparison with the vanilla name (level_reader.c:432-435) for slot  *)
(* j and a decoded xb.                                                     *)
(***************************************************************************)
\* xb holding the characters s, padded with spaces to 18 characters
PadName(s) == [i \in 0 .. 17 |-> IF i < Len(s) THEN s[i + 1] ELSE 32]

\* the name the variants of slot n are made from: its vanilla name, or
\* "STAR" when it has none
BaseName(n) ==
    LET v == vanilla_name(j_to_levelid(n).val)
    IN  IF v = NULLSTR THEN << 83, 84, 65, 82 >> ELSE v

\* the name itself, in lower case, with a lower-case first letter, without
\* its last character, with one more character, the empty name and "-"
NameVariants(v) ==
    { v, [k \in 1 .. Len(v) |-> ToLower(v[k])],
      [k \in 1 .. Len(v) |-> IF k = 1 THEN ToLower(v[k]) ELSE v[k]],
      SubSeq(v, 1, Max(Len(v) - 1, 0)),
      IF Len(v) < 18 THEN v \o << 33 >> ELSE v, <<>>, << 45 >> }

InitSlotName ==
    /\ TextIdle
    /\ tile_map = << 63 >>
    /\ \E n \in 1 .. 95 : \E s \in NameVariants(BaseName(n)) :
          fn = [name |-> "slot_name", arg |-> [j |-> n, xb |-> PadName(s)],
                direct |-> FALSE, ret |-> <<>>, done |-> FALSE]

\* level_reader.c:428-435
Call_slot_name ==
    /\ fn.name = "slot_name"
    /\ ~fn.done
    /\ fn' = [fn EXCEPT !.ret = SlotName(fn.arg.xb, j_to_levelid(fn.arg.j).val),
                        !.done = TRUE]
    /\ UNCHANGED <<mainVars, fileVars>>

(***************************************************************************)
(* Calls of escape_json_string_static (level_reader.c:137-204) with a      *)
(* non-NULL input and an output array of output_buffer_size bytes.         *)
(***************************************************************************)
\* the longest input made of every combination of EscAlphabet
MaxEscLen == 3

\* a quote, a newline, two control bytes without a named escape, a letter
\* and a byte above 0x7F
EscAlphabet == { 34, 10, \H01, \H1F, 65, \HE9 }

\* every string of up to MaxEscLen characters of the alphabet, every
\* one-byte string, and names of 15 to 18 equal characters
EscInputs ==
    UNION { [1 .. n -> EscAlphabet] : n \in 0 .. MaxEscLen }
    \cup { << c >> : c \in 1 .. 255 }
    \cup { [k \in 1 .. n |-> c] : n \in 15 .. 18, c \in { \H01, 34, 65 } }

EscSizes == { 0, 1, 2, 3, 6, 7, 8, 13, 19, X0Size }

\* the byte an output array holds before the call
EscStale == \HAA

InitEscape ==
    /\ TextIdle
    /\ tile_map = << 63 >>
    /\ \E input \in EscInputs, n \in EscSizes :
          fn = [name |-> "escape_json_string_static",
                arg |-> [input |-> input, size |-> n], direct |-> FALSE,
                ret |-> EscResult(0, <<>>, -1), done |-> FALSE]

Call_escape_json_string_static ==
    /\ fn.name = "escape_json_string_static"
    /\ ~fn.done
    /\ \E r \in { escape_json_string_static(fn.arg.input,
                        [i \in 0 .. (fn.arg.size - 1) |-> EscStale], fn.arg.size) } :
          fn' = [fn EXCEPT !.ret = r, !.done = TRUE]
    /\ UNCHANGED <<mainVars, fileVars>>

InitText == InitTrim \/ InitSlotName \/ InitEscape
NextText == Call_decode_trim \/ Call_slot_name \/ Call_escape_json_string_static
SpecText == InitText /\ [][NextText]_vars

(***************************************************************************)
(* PollForData (serialport_nonblock.cc:347-396).  What the JavaScript      *)
(* caller gets is [thrown, number, val]: thrown tells that an exception is *)
(* pending, number that the value is a Number (it is null otherwise), val  *)
(* the Number.                                                             *)
(***************************************************************************)
POLLIN == 1
POLLOUT == 4
POLLERR == 8
POLLHUP == 16
POLLNVAL == 32

JsNumber(v) == [thrown |-> FALSE, number |-> TRUE, val |-> v]
JsThrowNull == [thrown |-> TRUE, number |-> FALSE, val |-> 0]

\* valid: info holds two numbers; win32: the build defines _WIN32;
\* result and revents: what poll() returned and left in pfd.revents
PollForData(valid, win32, result, revents) ==
    IF ~valid THEN JsThrowNull
    ELSE IF win32 THEN JsNumber(-1)
    ELSE IF result = -1 THEN JsThrowNull
    ELSE IF result = 0 THEN JsNumber(1)
    ELSE IF BitAnd(revents, POLLIN) # 0 THEN JsNumber(0)
    ELSE IF BitAnd(revents, POLLOUT) # 0 THEN JsNumber(1)
    ELSE JsNumber(-1)

\* the largest file descriptor of the calls
PollMaxFd == 3

PollTimeouts == { -1, 0, 10 }

\* what poll() can do with one pollfd: fail, time out with revents = 0, or
\* report one descriptor with a non-empty set of events
PollOutcomes ==
    { [result |-> -1, revents |-> 0], [result |-> 0, revents |-> 0] }
    \cup { [result |-> 1, revents |-> e] : e \in
             { i + o + x : i \in {0, POLLIN}, o \in {0, POLLOUT},
                           x \in {0, POLLERR, POLLHUP, POLLNVAL,
                                  POLLERR + POLLHUP} } \ {0} }

NoPoll == [result |-> 0, revents |-> 0]

InitPoll ==
    /\ TextIdle
    /\ tile_map = << 63 >>
    /\ \E fd \in 0 .. PollMaxFd, t \in PollTimeouts, v \in BOOLEAN, w \in BOOLEAN :
          fn = [name |-> "PollForData",
                arg |-> [fd |-> fd, timeoutMs |-> t, valid |-> v, win32 |-> w],
                direct |-> FALSE,
                ret |-> [called |-> FALSE, poll |-> NoPoll, value |-> JsThrowNull],
                done |-> FALSE]

Call_PollForData ==
    /\ fn.name = "PollForData"
    /\ ~fn.done
    /\ LET called == fn.arg.valid /\ ~fn.arg.win32
       IN  \E p \in (IF called THEN PollOutcomes ELSE {NoPoll}) :
              fn' = [fn EXCEPT
                       !.ret = [called |-> called, poll |-> p,
                                value |-> PollForData(fn.arg.valid, fn.arg.win32,
                                                      p.result, p.revents)],
                       !.done = TRUE]
    /\ UNCHANGED <<mainVars, fileVars>>

SpecPoll == InitPoll /\ [][Call_PollForData]_vars

(***************************************************************************)
(* Properties.                                                             *)
(***************************************************************************)
\* the LevelID of slot n in closed form
ClosedFormId(n) == IF n <= 36 THEN n ELSE 256 + n - 36

\* the file offset of logical address a for a handle with the LoROM flag
\* lorom and header adjustment adj, in arithmetic
Translated(a, lorom) ==
    IF ~lorom THEN a
    ELSE IF a < 32768 THEN (a \div 65536) * 32768 + (a % 32768)
    ELSE ((a \div 65536) % 128) * 32768 + (a % 32768)

HasFlag(modes, bit) == (modes \div bit) % 2 = 1

\* the offset a call fn of read1 or read3 has to seek to
CallOffset ==
    IF fn.direct \/ openroms_count = 0 THEN fn.arg
    ELSE Translated(fn.arg, HasFlag(openroms[0].modes, 2)) + openroms[0].adj

\* C1: for every slot j in 1..95 j_to_levelid(j) returns without aborting:
\* j when 1 <= j <= 36 and 0x100 + j - 36 when 37 <= j <= 95.
C1_LevelIdTotal ==
    (fn.name = "j_to_levelid" /\ fn.done /\ fn.arg \in 1 .. 95)
        => (~fn.ret.abort /\ fn.ret.val = ClosedFormId(fn.arg))

C1_Witness ==
    fn.name = "j_to_levelid" /\ fn.done /\ fn.arg = 37 /\ fn.ret = Returns(257)

\* C4 as stated: every slot value j < 1 or j > 95 makes j_to_levelid abort.
C4_Original ==
    (fn.name = "j_to_levelid" /\ fn.done /\ (fn.arg < 1 \/ fn.arg > 95))
        => fn.ret.abort

\* C4: every slot value j < 0 or j > 95 makes j_to_levelid abort; slot 0 is
\* not fatal, j_to_levelid(0) returns LevelID 0.
C4_OutOfRangeAborts ==
    (fn.name = "j_to_levelid" /\ fn.done)
        => /\ (fn.arg < 0 \/ fn.arg > 95) => fn.ret.abort
           /\ fn.arg = 0 => fn.ret = Returns(0)

C4_Witness ==
    fn.name = "j_to_levelid" /\ fn.done /\ fn.arg = 96 /\ fn.ret.abort

\* C5: read1 seeks to the address itself when direct is set, and otherwise
\* to the translated address plus the header adjustment of the handle.
C5_Read1Offset ==
    (fn.name = "read1" /\ fn.done /\ (fn.direct \/ openroms_count = 1))
        => (fn.ret.sought /\ fn.ret.off = CallOffset)

C5_Witness ==
    /\ fn.name = "read1" /\ fn.done /\ ~fn.direct
    /\ openroms_count = 1 /\ openroms[0].modes = 3 /\ openroms[0].adj = 512
    /\ fn.arg = 8421376 /\ fn.ret.off = 512

\* the least element of a non-empty set of integers
MinOf(S) == CHOOSE x \in S : \A y \in S : x <= y

\* the text between the first two double quotes of a printed line
EntryKey(line) ==
    LET quotes == { k \in 1 .. Len(line) : line[k] = 34 }
        first == MinOf(quotes)
        second == MinOf(quotes \ {first})
    IN  SubSeq(line, first + 1, second - 1)

\* the number written by upper-case hexadecimal digits
RECURSIVE ParseHex(_)
ParseHex(digits) ==
    IF digits = <<>> THEN 0
    ELSE LET c == digits[Len(digits)]
             d == IF c >= 48 /\ c <= 57 THEN c - 48
                  ELSE IF c >= 65 /\ c <= 70 THEN c - 55
                  ELSE -4096
         IN  16 * ParseHex(SubSeq(digits, 1, Len(digits) - 1)) + d

\* the handle main has registered
MainHandle == openroms[0]
MainLoRom == HasFlag(MainHandle.modes, 2)

\* main is past the signature check and the check has passed
InTable == pc \in {"header", "loop", "close", "done"}

\* C2 as stated: f(1)=1, f(36)=0x24, f(37)=0x101 and f(95)=0x138, and the
\* last key main prints is 138.
C2_Original ==
    pc = "done" =>
        /\ ids[1] = 1 /\ ids[36] = 36 /\ ids[37] = 257 /\ ids[95] = 312
        /\ EntryKey(out[96]) = << 49, 51, 56 >>

\* C2: f(1)=1, f(36)=0x24, f(37)=0x101 and f(95)=0x13B, and the last key
\* main prints (slot 95) is 13B.
C2_Endpoints ==
    pc = "done" =>
        /\ ids[1] = 1 /\ ids[36] = 36 /\ ids[37] = 257 /\ ids[95] = 315
        /\ EntryKey(out[96]) = << 49, 51, 66 >>

C2_Witness == pc = "done" /\ Len(ids) = 95 /\ Len(out) = 97 /\ status = 0

\* C3: j_to_levelid is strictly increasing over the slots 1..95, and the 95
\* keys main prints are pairwise distinct.
C3_Monotonic ==
    pc = "done" =>
        /\ Len(ids) = 95
        /\ \A a, b \in 1 .. 95 : a < b => ids[a] < ids[b]
        /\ \A a, b \in 1 .. 95 : a # b => EntryKey(out[a + 1]) # EntryKey(out[b + 1])

C3_Witness == pc = "done" /\ ids[36] = 36 /\ ids[37] = 257 /\ ids[36] < ids[37]

\* C6: the handle main registers is decided by the file size: a multiple of
\* 1024 gives adjustment 0 without the copier-header flag, 512 more than a
\* multiple gives 0x200 with the flag, and any other size is reported on
\* stderr while main goes on, with adjustment 0 and no flag, to register
\* the handle and to detect the mapping.
C6_Classify ==
    pc \in {"detect", "locate"} =>
        /\ rom.seekable => file_size = rom.size
        /\ openroms_count = 1 /\ MainHandle.fp = fp /\ status = -1
        /\ file_size % 1024 = 0 =>
              MainHandle.adj = 0 /\ ~HasFlag(MainHandle.modes, 1)
        /\ file_size % 1024 = 512 =>
              MainHandle.adj = 512 /\ HasFlag(MainHandle.modes, 1)
        /\ file_size % 1024 \notin {0, 512} =>
              /\ MainHandle.adj = 0 /\ ~HasFlag(MainHandle.modes, 1)
              /\ pc = "detect" => MainHandle.modes = 0
              /\ \E k \in 1 .. Len(err) : err[k] = "invalid ROM size"
              /\ pc = "locate" => Len(reads) >= 1 /\ reads[1].addr = 32725

C6_Witness ==
    /\ pc = "locate" /\ file_size = 524544 /\ MainHandle.adj = 0
    /\ reads[1].addr = 32725 /\ status = -1

\* the state part of C7: right after the detection
C7_Detected ==
    pc = "locate" =>
        /\ Len(reads) >= 1
        /\ \A k \in 1 .. Len(reads) :
              /\ reads[k].addr = 32725
              /\ reads[k].r.sought /\ reads[k].r.off = 32725 + MainHandle.adj
              /\ rom.seekable => reads[k].r.val = Fgetc(rom, 32725 + MainHandle.adj)
        /\ MainLoRom <=> reads[1].r.val \in {32, 48}

\* C7: the detection reads the byte at file offset 0x7FD5 + adjustment and
\* sets the LoROM flag exactly when that byte is 0x20 or 0x30; from then
\* on the flags and the adjustment of the handle never change.
C7_Detection ==
    /\ []C7_Detected
    /\ [][pc \notin {"start", "open", "classify", "detect", "idle"}
             => (openroms' = openroms /\ openroms_count' = openroms_count)]_vars

C7_Witness ==
    /\ pc = "loop" /\ j = 2 /\ MainLoRom /\ MainHandle.adj = 512
    /\ rom.patches[33237] = 48

\* what read3 has to return when it seeks to offset p
ExpectedRead3(p) ==
    IF ~rom.seekable \/ p < 0 \/ p + 2 >= rom.size THEN EOF
    ELSE FileByte(rom, p) + 256 * FileByte(rom, p + 1) + 65536 * FileByte(rom, p + 2)

\* C8: when the signature byte is 0x22 the table base of every slot is what
\* read3 returns at 0x03BB57: b0 | b1<<8 | b2<<16 of the three file bytes at
\* the translated offset, a value in 0..0xFFFFFF; read3 returns EOF when
\* the seek fails or one of the three bytes is past the end of the file.
C8_TableBase ==
    /\ InTable =>
          /\ levelnames_addr =
                ExpectedRead3(Translated(244567, MainLoRom) + MainHandle.adj)
          /\ levelnames_addr \in 0 .. 16777215
          /\ pc = "header" => reads[2].addr = 244567 /\ reads[2].r.val = levelnames_addr
          /\ (pc \in {"loop", "close"} /\ j > 1) =>
                /\ Len(reads) = 18
                /\ \A i \in 1 .. 18 :
                      reads[i].addr = levelnames_addr + 19 * (j - 1) + (i - 1)
    /\ (fn.name = "read3" /\ fn.done) =>
          /\ fn.ret.off = CallOffset
          /\ fn.ret.val = ExpectedRead3(CallOffset)
          /\ fn.ret.val = EOF \/ fn.ret.val \in 0 .. 16777215

C8_Witness ==
    /\ pc = "loop" /\ j = 50 /\ MainLoRom /\ MainHandle.adj = 512
    /\ levelnames_addr = 523264 /\ reads[1].addr = 523264 + 19 * 49

\* the byte at logical address 0x049549 as main's handle maps it
SigByte ==
    IF ~rom.seekable THEN EOF
    ELSE Fgetc(rom, Translated(300361, MainLoRom) + MainHandle.adj)

\* C9: when the byte at 0x049549 is not 0x22 (EOF included) main ends in
\* exit with a non-zero status and stdout stays empty.
C9_Unsupported ==
    (openroms_count = 1 /\ pc \notin {"detect", "locate"} /\ SigByte # 34)
        => (pc = "exited" /\ status > 0 /\ out = <<>>)

C9_Witness ==
    /\ pc = "exited" /\ openroms_count = 1 /\ SigByte = EOF /\ rom.seekable
    /\ reads[1].addr = 300361 /\ status = 1 /\ out = <<>>

\* stdout of a completed run: the header, 95 entry lines in slot order keyed
\* by the LevelID of the slot, a comma after all but the last, the brace
C10_Shape ==
    /\ Len(out) = 97
    /\ out[1] = HeaderLine
    /\ out[97] = ClosingLine
    /\ \A n \in 1 .. 95 :
          LET line == out[n + 1]
              len == Len(line)
          IN  /\ Len(EntryKey(line)) = 3
              /\ ParseHex(EntryKey(line)) = ClosedFormId(n)
              /\ line[len] = 10
              /\ \A k \in 1 .. (len - 1) : line[k] # 10
              /\ IF n < 95 THEN line[len - 1] = 44 /\ line[len - 2] = 34
                 ELSE line[len - 1] = 34

\* C10: once the signature check has passed main runs to completion, for
\* every content of the file (table bytes read as EOF included), and has
\* then printed the header, the 95 entries in slot order with a comma after
\* all but the last, and the closing brace.
C10_Output ==
    /\ [](pc = "done" => (C10_Shape /\ status = 0))
    /\ [](InTable => SigByte = 34)
    /\ (pc = "header") ~> (pc = "done")

C10_Witness ==
    /\ pc = "done" /\ Len(out) = 97
    /\ \E i \in 1 .. 18 : reads[i].r.val = EOF

\* the 18 characters the tile codes of a decode_trim call decode to
Decoded == [i \in 1 .. 18 |-> smw_character_lookup(tile_map, fn.arg[i])]

\* the index of the last character of s that is not a space, 0 without one
LastNonSpace(s) ==
    LET N == { k \in 1 .. Len(s) : s[k] # 32 }
    IN  IF N = {} THEN 0 ELSE CHOOSE k \in N : \A m \in N : m <= k

\* C11: when the 18 tile codes decode to non-NUL characters the trimmed
\* name is the decoded characters without their trailing spaces: at most 18
\* characters, never ending with a space, empty for an all-space decode
\* (the length guard never stops the loop early); the tile codes 0x1F, 0x9F
\* and 0xFC decode to a space.
C11_Trimmed ==
    (fn.name = "decode_trim" /\ fn.done /\ \A i \in 1 .. 18 : Decoded[i] # 0)
        => /\ fn.ret = SubSeq(Decoded, 1, LastNonSpace(Decoded))
           /\ Len(fn.ret) <= 18
           /\ fn.ret # <<>> => fn.ret[Len(fn.ret)] # 32
           /\ (\A i \in 1 .. 18 : Decoded[i] = 32) => fn.ret = <<>>
           /\ \A i \in 1 .. 18 : fn.arg[i] \in {31, 159, 252} => Decoded[i] = 32

C11_Witness ==
    /\ fn.name = "decode_trim" /\ fn.done
    /\ fn.arg[16] = 31 /\ fn.arg[17] = 159 /\ fn.arg[18] = 252
    /\ fn.ret = << 83, 83, 83, 83, 83 >>

\* a letter in upper case, any other byte as it is
Fold(c) == IF c >= 97 /\ c <= 122 THEN c - 32 ELSE c

\* s and t are equal ignoring ASCII case
EqualNoCase(s, t) ==
    Len(s) = Len(t) /\ \A k \in 1 .. Len(s) : Fold(s[k]) = Fold(t[k])

\* the trimmed name of a slot_name call
CallTrimmed ==
    LET xb == [k \in 1 .. 18 |-> fn.arg.xb[k - 1]]
    IN  SubSeq(xb, 1, LastNonSpace(xb))

\* the vanilla name of the slot of a slot_name call matches its trimmed name
CallMatches ==
    LET v == vanilla_name(ClosedFormId(fn.arg.j))
    IN  v # NULLSTR /\ EqualNoCase(CallTrimmed, v)

\* C12: for every slot 1..95 the name becomes "-" exactly when the LevelID
\* has a vanilla name and it equals the trimmed name ignoring ASCII case,
\* and is the trimmed name otherwise; LevelIDs 0x139..0x13B have no vanilla
\* name and are never replaced; LevelID 0x112 is replaced exactly when the
\* trimmed name is empty.
C12_Vanilla ==
    (fn.name = "slot_name" /\ fn.done) =>
        /\ CallMatches => fn.ret = << 45 >>
        /\ ~CallMatches => fn.ret = CallTrimmed
        /\ ClosedFormId(fn.arg.j) \in 313 .. 315 =>
               (vanilla_name(ClosedFormId(fn.arg.j)) = NULLSTR /\ fn.ret = CallTrimmed)
        /\ ClosedFormId(fn.arg.j) = 274 => (CallMatches <=> CallTrimmed = <<>>)

C12_Witness ==
    /\ fn.name = "slot_name" /\ fn.done /\ fn.arg.j = 37
    /\ fn.arg.xb[0] = 35 /\ fn.arg.xb[3] = 105
    /\ fn.ret = << 45 >>

\* the lower-case hexadecimal digit of d
HexChar(d) == IF d < 10 THEN 48 + d ELSE 87 + d

\* the image of one byte in the escaped text
Image(c) ==
    CASE c = 34 -> << 92, 34 >>
      [] c = 92 -> << 92, 92 >>
      [] c = 8  -> << 92, 98 >>
      [] c = 12 -> << 92, 102 >>
      [] c = 10 -> << 92, 110 >>
      [] c = 13 -> << 92, 114 >>
      [] c = 9  -> << 92, 116 >>
      [] c \in ((1 .. 31) \ {8, 9, 10, 12, 13}) ->
             << 92, 117, 48, 48, HexChar(c \div 16), HexChar(c % 16) >>
      [] OTHER -> << c >>

\* the concatenation of the images of the bytes of s
RECURSIVE Escaped(_)
Escaped(s) == IF s = <<>> THEN <<>> ELSE Image(Head(s)) \o Escaped(Tail(s))

\* the call under study is a finished call of escape_json_string_static
\* with an output array of at least one byte
EscapeCalled ==
    fn.name = "escape_json_string_static" /\ fn.done /\ fn.arg.size >= 1

\* C13: for an input whose escaped text fits the output array the output is
\* the concatenation of the images of its bytes (two-character escapes for
\* quote, backslash, \b, \f, \n, \r, \t; \u00xx in lower-case hex for the
\* other bytes 0x01..0x1F; every other byte unchanged), a string without
\* special characters comes back unchanged, and the return value is the
\* length of the output.
C13_Images ==
    (EscapeCalled /\ Len(Escaped(fn.arg.input)) < fn.arg.size) =>
        /\ CString(fn.ret.buf, fn.arg.size) = Escaped(fn.arg.input)
        /\ fn.ret.ret = StrLen(fn.ret.buf, fn.arg.size)
        /\ (\A k \in 1 .. Len(fn.arg.input) :
               fn.arg.input[k] >= 32 /\ fn.arg.input[k] \notin {34, 92})
              => CString(fn.ret.buf, fn.arg.size) = fn.arg.input

C13_Witness ==
    /\ EscapeCalled /\ fn.arg.input = << 34, 31, 233 >> /\ fn.arg.size = 13
    /\ fn.ret.ret = 9
    /\ CString(fn.ret.buf, 13) = << 92, 34, 92, 117, 48, 48, 49, 102, 233 >>

\* C14 as stated: whatever poll() does, its failure included, the caller of
\* PollForData receives a number: 0 when POLLIN is reported, 1 when the
\* poll timed out, -1 on error.
C14_Original ==
    (fn.name = "PollForData" /\ fn.done /\ fn.ret.called) =>
        /\ ~fn.ret.value.thrown
        /\ fn.ret.value.number
        /\ fn.ret.value.val \in {0, 1, -1}
        /\ (fn.ret.poll.result > 0 /\ BitAnd(fn.ret.poll.revents, POLLIN) # 0)
              => fn.ret.value.val = 0
        /\ fn.ret.poll.result = 0 => fn.ret.value.val = 1
        /\ fn.ret.poll.result = -1 => fn.ret.value.val = -1

\* C15: with an output array of n >= 1 bytes escape_json_string_static
\* returns -1 exactly when the escaped text is n characters or longer, and
\* otherwise returns the length of the escaped text with a NUL after it; in
\* both cases no index >= n of the output is written.
C15_Bound ==
    EscapeCalled =>
        /\ fn.ret.ret = -1 <=> Len(Escaped(fn.arg.input)) >= fn.arg.size
        /\ fn.ret.ret # -1 =>
              /\ fn.ret.ret = Len(Escaped(fn.arg.input))
              /\ fn.ret.buf[fn.ret.ret] = 0
        /\ fn.ret.hi < fn.arg.size

C15_Witness ==
    /\ EscapeCalled /\ fn.arg.size = X0Size
    /\ Len(fn.arg.input) = 17 /\ fn.arg.input[17] = 1
    /\ fn.ret.ret = -1 /\ fn.ret.hi = 96

====
